---- MODULE Spec2Model ----
(***************************************************************************)
(* A model of rag/main.py: a linear script that loads one web page and the *)
(* local .txt files, splits them into overlapping chunks, indexes the       *)
(* chunks in an in-memory vector store, and runs a two-node graph           *)
(* (retrieve -> generate) once for one hard-coded question.                 *)
(*                                                                          *)
(* Texts are sequences of one-character strings.  The library calls the    *)
(* script makes (RecursiveCharacterTextSplitter, InMemoryVectorStore,       *)
(* StateGraph) are modelled by the algorithm they run with the arguments    *)
(* the script gives them; the servers the script talks to (the web site,    *)
(* the file system, the embedding model, the prompt hub, the generative     *)
(* model) are the environment: their answers are chosen with \E and each    *)
(* of them may raise.                                                       *)
(***************************************************************************)
EXTENDS Integers, Sequences, FiniteSets, TLC

VARIABLES
  pc,             \* the statement of the script that runs next
  web_docs,       \* line 25
  file_docs,      \* line 36
  all_docs,       \* line 39
  all_splits,     \* line 43
  vector_store,   \* line 18: the store's entries, in insertion order
  prompt,         \* line 49
  node,           \* the node of the graph that runs next
  state,          \* the State of the invocation, lines 52-55
  query_vector,   \* the embedding similarity_search computed, line 58
  retrieved_docs, \* line 58
  messages,       \* line 63: what the prompt template was invoked with
  llm_response,   \* line 64: what llm.invoke returned
  response,       \* line 71
  stdout,         \* what the script printed
  calls,          \* history: the external calls made, each with its outcome
  executed        \* history: the nodes of the graph that ran

vars == <<pc, web_docs, file_docs, all_docs, all_splits, vector_store, prompt,
          node, state, query_vector, retrieved_docs, messages, llm_response,
          response, stdout, calls, executed>>

----------------------------------------------------------------------------
(* Bounds of the model.                                                     *)

\* chunk_size=1000 and chunk_overlap=200 of line 42, scaled down so that
\* the enumerated texts span several chunks (chunk_overlap < chunk_size).
chunk_size == 4
chunk_overlap == 1
\* Longest text of the splitter's own specification.
MaxLen == 7
\* Longest web page of the script's specification.
MaxPageLen == 5
\* Most local .txt files found by the directory loader.
MaxFiles == 2
\* Most entries of the store in the search's own specification.
MaxStore == 5

\* similarity_search(query), line 58: the library's default k.
DefaultK == 4

----------------------------------------------------------------------------
(* Text.                                                                    *)

NL == "\n"
SP == " "
Chars == {"a", SP, NL}
PageChars == {"a", SP}
\* The contents of a local file in the script's specification.
FileTexts == {<<>>, <<"a">>}
Whitespace == {SP, NL}

RECURSIVE TextsOfLen(_, _)
TextsOfLen(alphabet, n) ==
  IF n = 0 THEN {<<>>}
  ELSE {Append(t, c) : t \in TextsOfLen(alphabet, n - 1), c \in alphabet}

Texts(alphabet, n) == UNION {TextsOfLen(alphabet, m) : m \in 0..n}

Max(a, b) == IF a >= b THEN a ELSE b
Min(a, b) == IF a <= b THEN a ELSE b

\* str.strip(): leading and trailing whitespace removed.
RECURSIVE LStrip(_)
LStrip(t) == IF t # <<>> /\ Head(t) \in Whitespace THEN LStrip(Tail(t)) ELSE t

RECURSIVE RStrip(_)
RStrip(t) ==
  IF t # <<>> /\ t[Len(t)] \in Whitespace THEN RStrip(SubSeq(t, 1, Len(t) - 1)) ELSE t

Strip(t) == RStrip(LStrip(t))

\* Whether sub occurs in text at the 1-based position i.
OccursAt(text, sub, i) ==
  /\ i >= 1
  /\ i + Len(sub) - 1 <= Len(text)
  /\ \A j \in 1..Len(sub) : text[i + j - 1] = sub[j]

\* str.find(sub, start): the lowest 0-based index >= start where sub occurs, or -1.
Find(text, sub, start) ==
  LET hits == {i \in start..Len(text) : OccursAt(text, sub, i + 1)}
  IN IF hits = {} THEN -1 ELSE CHOOSE i \in hits : \A j \in hits : i <= j

\* separator.join(parts)
RECURSIVE Join(_, _)
Join(separator, parts) ==
  IF parts = <<>> THEN <<>>
  ELSE IF Len(parts) = 1 THEN parts[1]
  ELSE parts[1] \o separator \o Join(separator, Tail(parts))

----------------------------------------------------------------------------
(* RecursiveCharacterTextSplitter(chunk_size, chunk_overlap,                *)
(*                                add_start_index=True), lines 42-43.       *)
(* Defaults: separators ["\n\n", "\n", " ", ""], keep_separator=True,       *)
(* strip_whitespace=True, length_function=len.                              *)

Separators == << <<NL, NL>>, <<NL>>, <<SP>>, <<>> >>

\* re.search(separator, text)
Contains(text, sep) == \E i \in 1..Len(text) : OccursAt(text, sep, i)

\* The segments between the leftmost non-overlapping matches of sep.
RECURSIVE ReSplit(_, _, _, _)
ReSplit(text, sep, i, cur) ==
  IF i > Len(text) THEN <<cur>>
  ELSE IF OccursAt(text, sep, i)
       THEN <<cur>> \o ReSplit(text, sep, i + Len(sep), <<>>)
       ELSE ReSplit(text, sep, i + 1, Append(cur, text[i]))

\* _split_text_with_regex(text, separator, keep_separator=True): each
\* separator stays at the start of the piece that follows it; empty pieces
\* are dropped; the empty separator splits into characters.
SplitTextWithRegex(text, sep) ==
  LET segs == ReSplit(text, sep, 1, <<>>)
      splits == IF sep = <<>>
                THEN [i \in 1..Len(text) |-> <<text[i]>>]
                ELSE <<segs[1]>> \o [i \in 1..(Len(segs) - 1) |-> sep \o segs[i + 1]]
  IN SelectSeq(splits, LAMBDA s : s # <<>>)

\* _join_docs: joined and stripped; the empty text stands for None.
JoinDocs(docs, separator) == Strip(Join(separator, docs))

\* The inner while loop of _merge_splits: pieces are dropped from the front
\* of the window while it is longer than the overlap, or while it would not
\* leave room for the next piece.
RECURSIVE PopLoop(_, _, _, _)
PopLoop(current_doc, total, len, separator_len) ==
  IF \/ total > chunk_overlap
     \/ /\ total + len + (IF Len(current_doc) > 0 THEN separator_len ELSE 0) > chunk_size
        /\ total > 0
  THEN PopLoop(Tail(current_doc),
               total - (Len(current_doc[1])
                        + (IF Len(current_doc) > 1 THEN separator_len ELSE 0)),
               len, separator_len)
  ELSE [current_doc |-> current_doc, total |-> total]

\* The for loop of _merge_splits from piece i on.
RECURSIVE MergeLoop(_, _, _, _, _, _)
MergeLoop(splits, separator, i, docs, current_doc, total) ==
  IF i > Len(splits)
  THEN LET doc == JoinDocs(current_doc, separator)
       IN IF doc # <<>> THEN Append(docs, doc) ELSE docs
  ELSE
    LET d == splits[i]
        len == Len(d)
        separator_len == Len(separator)
        over == total + len + (IF Len(current_doc) > 0 THEN separator_len ELSE 0)
                  > chunk_size
        flush == over /\ Len(current_doc) > 0
        doc == JoinDocs(current_doc, separator)
        docs1 == IF flush /\ doc # <<>> THEN Append(docs, doc) ELSE docs
        kept == IF flush THEN PopLoop(current_doc, total, len, separator_len)
                ELSE [current_doc |-> current_doc, total |-> total]
        current1 == Append(kept.current_doc, d)
        total1 == kept.total + len + (IF Len(current1) > 1 THEN separator_len ELSE 0)
    IN MergeLoop(splits, separator, i + 1, docs1, current1, total1)

MergeSplits(splits, separator) == MergeLoop(splits, separator, 1, <<>>, <<>>, 0)

\* The separator _split_text picks: the first of the list that is empty or
\* occurs in the text (the last one when none does).
RECURSIVE PickSeparator(_, _, _)
PickSeparator(text, separators, i) ==
  IF i > Len(separators) THEN [separator |-> separators[Len(separators)], rest |-> <<>>]
  ELSE IF separators[i] = <<>> THEN [separator |-> <<>>, rest |-> <<>>]
  ELSE IF Contains(text, separators[i])
       THEN [separator |-> separators[i],
             rest |-> SubSeq(separators, i + 1, Len(separators))]
       ELSE PickSeparator(text, separators, i + 1)

\* _split_text(text, separators)
RECURSIVE SplitText(_, _)
RECURSIVE SplitLoop(_, _, _, _, _)
SplitLoop(splits, new_separators, i, final_chunks, good_splits) ==
  IF i > Len(splits)
  THEN IF good_splits # <<>>
       THEN final_chunks \o MergeSplits(good_splits, <<>>)
       ELSE final_chunks
  ELSE
    LET s == splits[i]
    IN IF Len(s) < chunk_size
       THEN SplitLoop(splits, new_separators, i + 1, final_chunks, Append(good_splits, s))
       ELSE
         LET flushed == IF good_splits # <<>>
                        THEN final_chunks \o MergeSplits(good_splits, <<>>)
                        ELSE final_chunks
             more == IF new_separators = <<>> THEN <<s>>
                     ELSE SplitText(s, new_separators)
         IN SplitLoop(splits, new_separators, i + 1, flushed \o more, <<>>)

SplitText(text, separators) ==
  LET pick == PickSeparator(text, separators, 1)
      splits == SplitTextWithRegex(text, pick.separator)
  IN SplitLoop(splits, pick.rest, 1, <<>>, <<>>)

\* A Document: its content and the metadata the script relies on.
\* start_index is -1 and id is 0 while they are not set.
Document(source, content) ==
  [page_content |-> content, source |-> source, start_index |-> -1, id |-> 0]

\* The start-index loop searching from the previous chunk's start, its length
\* left out of the offset.
RECURSIVE StartIndexLoopFromPreviousStart(_, _, _, _, _)
StartIndexLoopFromPreviousStart(doc, chunks, i, index, previous_chunk_len) ==
  IF i > Len(chunks) THEN <<>>
  ELSE
    LET chunk == chunks[i]
        offset == index - chunk_overlap
        found == Find(doc.page_content, chunk, Max(0, offset))
    IN <<[page_content |-> chunk, source |-> doc.source, start_index |-> found, id |-> 0]>>
         \o StartIndexLoopFromPreviousStart(doc, chunks, i + 1, found, Len(chunk))

\* create_documents for one document with add_start_index=True: each chunk
\* is searched for in the text from the previous chunk's start + its length
\* - chunk_overlap on, and the index found is recorded.
RECURSIVE StartIndexLoop(_, _, _, _, _)
StartIndexLoop(doc, chunks, i, index, previous_chunk_len) ==
  IF i > Len(chunks) THEN <<>>
  ELSE
    LET chunk == chunks[i]
        offset == index + previous_chunk_len - chunk_overlap
        found == Find(doc.page_content, chunk, Max(0, offset))
    IN <<[page_content |-> chunk, source |-> doc.source, start_index |-> found, id |-> 0]>>
         \o StartIndexLoop(doc, chunks, i + 1, found, Len(chunk))

SplitDocument(doc) ==
  StartIndexLoop(doc, SplitText(doc.page_content, Separators), 1, 0, 0)

\* split_documents(docs): the documents in order, each one's chunks in order.
RECURSIVE SplitDocuments(_)
SplitDocuments(docs) ==
  IF docs = <<>> THEN <<>>
  ELSE SplitDocument(Head(docs)) \o SplitDocuments(Tail(docs))

----------------------------------------------------------------------------
(* The embedding model and InMemoryVectorStore, lines 17-18, 46 and 58.     *)

\* The vectors the embedding server may answer with (none of them zero).
Vecs == {<<1, 0>>, <<0, 1>>, <<1, 1>>, <<-1, 0>>}
\* The embedding model's answers in the script's specification.
PageVecs == {<<1, 0>>, <<0, 1>>}

Dot(a, b) == a[1] * b[1] + a[2] * b[2]

\* cosine_similarity(q, a) < cosine_similarity(q, b), in exact arithmetic:
\* Dot(a,q)/|a| < Dot(b,q)/|b|, compared through the signs and the squares.
SimLess(a, b, q) ==
  LET x == Dot(a, q)
      y == Dot(b, q)
      A == Dot(a, a)
      B == Dot(b, b)
  IN IF x < 0 /\ y >= 0 THEN TRUE
     ELSE IF x >= 0 /\ y < 0 THEN FALSE
     ELSE IF x >= 0 THEN x * x * B < y * y * A
     ELSE x * x * B > y * y * A

\* add_documents(documents): one embed_documents call for all the texts,
\* then one entry per document, appended in order under a fresh id.
AddedEntries(store, documents, vectors) ==
  store \o [i \in 1..Len(documents) |->
              [id |-> Len(store) + i, vector |-> vectors[i], doc |-> documents[i]]]

\* The entry e put into a list of entries sorted by similarity to q,
\* most similar first; among equals it goes last, or first when the sort
\* that ranks the entries puts equal scores in reverse insertion order.
RECURSIVE InsertRanked(_, _, _, _)
InsertRanked(sorted, e, q, ties_reversed) ==
  IF sorted = <<>> THEN <<e>>
  ELSE IF \/ SimLess(Head(sorted).vector, e.vector, q)
          \/ ties_reversed /\ ~SimLess(e.vector, Head(sorted).vector, q)
       THEN <<e>> \o sorted
       ELSE <<Head(sorted)>> \o InsertRanked(Tail(sorted), e, q, ties_reversed)

RECURSIVE Ranked(_, _, _)
Ranked(store, q, ties_reversed) ==
  IF store = <<>> THEN <<>>
  ELSE InsertRanked(Ranked(SubSeq(store, 1, Len(store) - 1), q, ties_reversed),
                    store[Len(store)], q, ties_reversed)

\* The search keeping the wrong end of the ranking: the k least similar.
SimilaritySearchLeastSimilar(store, q, k, ties_reversed) ==
  LET ranked == Ranked(store, q, ties_reversed)
      top == SubSeq(ranked, Len(ranked) - Min(k, Len(ranked)) + 1, Len(ranked))
  IN [i \in 1..Len(top) |-> [top[i].doc EXCEPT !.id = top[i].id]]

\* similarity_search_by_vector(q, k): the k entries most similar to q, most
\* similar first, each returned as a Document carrying the entry's id.
SimilaritySearch(store, q, k, ties_reversed) ==
  LET ranked == Ranked(store, q, ties_reversed)
      top == SubSeq(ranked, 1, Min(k, Len(ranked)))
  IN [i \in 1..Len(top) |-> [top[i].doc EXCEPT !.id = top[i].id]]

----------------------------------------------------------------------------
(* The graph, lines 52-69.                                                  *)

START == "__start__"
END == "__end__"
Question == "What are some username passwords?"
PromptId == "rlm/rag-prompt"
Answers == {"", "an answer"}
\* A Document's source: the i-th URL of web_paths (there is one, line 22),
\* or the i-th path the glob of line 32 matched.
WebSource == <<"web", 1>>
FileSource(i) == <<"file", i>>

\* add_sequence([retrieve, generate]) and add_edge(START, "retrieve").
Edges == {<<START, "retrieve">>, <<"retrieve", "generate">>}

\* The graph with a retry edge from generate back to retrieve.
GraphNextWithRetryEdge(n) ==
  IF n = "generate" THEN "retrieve"
  ELSE IF \E e \in Edges : e[1] = n
  THEN (CHOOSE e \in Edges : e[1] = n)[2]
  ELSE END

\* The node that runs after n: the target of n's edge, END when it has none.
GraphNext(n) ==
  IF \E e \in Edges : e[1] = n
  THEN (CHOOSE e \in Edges : e[1] = n)[2]
  ELSE END

\* The State replaced by a node's return value instead of merged with it.
ApplyUpdateReplacesState(st, update) == update

\* A node's return value merged into the State: the keys it returns are
\* overwritten, the others kept.
ApplyUpdate(st, update) == update @@ st

\* retrieve, lines 57-59, given what the search returned.
retrieve(st, docs) == "context" :> docs

\* The chunks joined with one newline instead of a blank line.
DocsContentSingleNewline(context) ==
  Join(<<NL>>, [i \in 1..Len(context) |-> context[i].page_content])

\* docs_content, line 62.
DocsContent(context) ==
  Join(<<NL, NL>>, [i \in 1..Len(context) |-> context[i].page_content])

\* The arguments of prompt.invoke, line 63.
PromptArgs(st) == [question |-> st["question"], context |-> DocsContent(st["context"])]

\* generate, lines 61-65, given what the model answered.
generate(st, answer) == "answer" :> answer

\* The local files put before the web page.
CombineDocsFilesFirst(web, files) == files \o web

\* all_docs, line 39.
CombineDocs(web, files) == web \o files

----------------------------------------------------------------------------
(* The script, statement by statement.                                      *)

Call(name, ok) == [call |-> name, ok |-> ok]

Abort(name) ==
  /\ pc' = "aborted"
  /\ calls' = Append(calls, Call(name, FALSE))

Init ==
  /\ pc = "load_web"
  /\ web_docs = <<>>
  /\ file_docs = <<>>
  /\ all_docs = <<>>
  /\ all_splits = <<>>
  /\ vector_store = <<>>
  /\ prompt = ""
  /\ node = START
  /\ state = <<>>
  /\ query_vector = <<>>
  /\ retrieved_docs = <<>>
  /\ messages = <<>>
  /\ llm_response = ""
  /\ response = <<>>
  /\ stdout = <<>>
  /\ calls = <<>>
  /\ executed = <<>>

\* Lines 21-26: the loader yields one Document per URL of web_paths, and
\* web_paths holds one URL.
LoadWeb ==
  /\ pc = "load_web"
  /\ \E page \in Texts(PageChars, MaxPageLen) :
       web_docs' = <<Document(WebSource, page)>>
  /\ stdout' = Append(stdout, <<"Loaded", Len(web_docs'), "web documents.">>)
  /\ calls' = Append(calls, Call("web_loader.load", TRUE))
  /\ pc' = "load_files"
  /\ UNCHANGED <<file_docs, all_docs, all_splits, vector_store, prompt, node, state,
                 query_vector, retrieved_docs, messages, llm_response, response,
                 executed>>

LoadWebFails ==
  /\ pc = "load_web"
  /\ Abort("web_loader.load")
  /\ UNCHANGED <<web_docs, file_docs, all_docs, all_splits, vector_store, prompt, node,
                 state, query_vector, retrieved_docs, messages, llm_response, response,
                 stdout, executed>>

\* Lines 29-36: one Document per .txt file found, tagged with its path.
LoadFiles ==
  /\ pc = "load_files"
  /\ \E n \in 0..MaxFiles :
       \E contents \in [1..n -> FileTexts] :
         file_docs' = [i \in 1..n |-> Document(FileSource(i), contents[i])]
  /\ calls' = Append(calls, Call("file_loader.load", TRUE))
  /\ pc' = "combine"
  /\ UNCHANGED <<web_docs, all_docs, all_splits, vector_store, prompt, node, state,
                 query_vector, retrieved_docs, messages, llm_response, response,
                 stdout, executed>>

\* The directory loader swallowing the error and going on with no files.
LoadFilesFailsSilently ==
  /\ pc = "load_files"
  /\ file_docs' = <<>>
  /\ calls' = Append(calls, Call("file_loader.load", FALSE))
  /\ pc' = "combine"
  /\ UNCHANGED <<web_docs, all_docs, all_splits, vector_store, prompt, node, state,
                 query_vector, retrieved_docs, messages, llm_response, response,
                 stdout, executed>>

LoadFilesFails ==
  /\ pc = "load_files"
  /\ Abort("file_loader.load")
  /\ UNCHANGED <<web_docs, file_docs, all_docs, all_splits, vector_store, prompt, node,
                 state, query_vector, retrieved_docs, messages, llm_response, response,
                 stdout, executed>>

\* Lines 39-41: all_docs[0] raises IndexError when nothing was loaded.
Combine ==
  /\ pc = "combine"
  /\ all_docs' = CombineDocs(web_docs, file_docs)
  /\ IF all_docs' = <<>>
     THEN /\ pc' = "aborted"
          /\ UNCHANGED stdout
     ELSE /\ pc' = "split"
          /\ stdout' = Append(stdout, <<"Total characters:", Len(all_docs'[1].page_content)>>)
  /\ UNCHANGED <<web_docs, file_docs, all_splits, vector_store, prompt, node, state,
                 query_vector, retrieved_docs, messages, llm_response, response,
                 calls, executed>>

\* Lines 42-43.
Split ==
  /\ pc = "split"
  /\ all_splits' = SplitDocuments(all_docs)
  /\ pc' = "add_documents"
  /\ UNCHANGED <<web_docs, file_docs, all_docs, vector_store, prompt, node, state,
                 query_vector, retrieved_docs, messages, llm_response, response,
                 stdout, calls, executed>>

\* Line 46.
AddDocuments ==
  /\ pc = "add_documents"
  /\ \E vectors \in [1..Len(all_splits) -> PageVecs] :
       vector_store' = AddedEntries(vector_store, all_splits, vectors)
  /\ calls' = Append(calls, Call("embed_documents", TRUE))
  /\ pc' = "pull_prompt"
  /\ UNCHANGED <<web_docs, file_docs, all_docs, all_splits, prompt, node, state,
                 query_vector, retrieved_docs, messages, llm_response, response,
                 stdout, executed>>

\* Line 46 when the embedding server fails: nothing was added yet.
AddDocumentsFails ==
  /\ pc = "add_documents"
  /\ Abort("embed_documents")
  /\ UNCHANGED <<web_docs, file_docs, all_docs, all_splits, vector_store, prompt, node,
                 state, query_vector, retrieved_docs, messages, llm_response, response,
                 stdout, executed>>

\* Line 49.
PullPrompt ==
  /\ pc = "pull_prompt"
  /\ prompt' = PromptId
  /\ calls' = Append(calls, Call("hub.pull", TRUE))
  /\ pc' = "invoke"
  /\ UNCHANGED <<web_docs, file_docs, all_docs, all_splits, vector_store, node, state,
                 query_vector, retrieved_docs, messages, llm_response, response,
                 stdout, executed>>

PullPromptFails ==
  /\ pc = "pull_prompt"
  /\ Abort("hub.pull")
  /\ UNCHANGED <<web_docs, file_docs, all_docs, all_splits, vector_store, prompt, node,
                 state, query_vector, retrieved_docs, messages, llm_response, response,
                 stdout, executed>>

\* Line 71, entering the graph with the input {"question": ...}.
Invoke ==
  /\ pc = "invoke"
  /\ node = START
  /\ state' = ("question" :> Question)
  /\ node' = GraphNext(START)
  /\ pc' = "graph"
  /\ UNCHANGED <<web_docs, file_docs, all_docs, all_splits, vector_store, prompt,
                 query_vector, retrieved_docs, messages, llm_response, response,
                 stdout, calls, executed>>

\* A retrieve node that indexes the corpus again on every question.
RunRetrieveReindexes ==
  /\ pc = "graph"
  /\ node = "retrieve"
  /\ \E q \in Vecs, ties_reversed \in BOOLEAN :
       /\ query_vector' = q
       /\ vector_store' = AddedEntries(vector_store, all_splits,
                                       [i \in 1..Len(all_splits) |-> q])
       /\ retrieved_docs' = SimilaritySearch(vector_store', q, DefaultK, ties_reversed)
  /\ state' = ApplyUpdate(state, retrieve(state, retrieved_docs'))
  /\ calls' = Append(calls, Call("embed_query", TRUE))
  /\ executed' = Append(executed, node)
  /\ node' = GraphNext(node)
  /\ UNCHANGED <<pc, web_docs, file_docs, all_docs, all_splits, prompt,
                 messages, llm_response, response, stdout>>

\* The retrieve node, lines 57-59.  The order of equally similar entries is
\* the ranking sort's, which differs between versions of the store.
RunRetrieve ==
  /\ pc = "graph"
  /\ node = "retrieve"
  /\ \E q \in Vecs, ties_reversed \in BOOLEAN :
       /\ query_vector' = q
       /\ retrieved_docs' = SimilaritySearch(vector_store, q, DefaultK, ties_reversed)
  /\ state' = ApplyUpdate(state, retrieve(state, retrieved_docs'))
  /\ calls' = Append(calls, Call("embed_query", TRUE))
  /\ executed' = Append(executed, node)
  /\ node' = GraphNext(node)
  /\ UNCHANGED <<pc, web_docs, file_docs, all_docs, all_splits, vector_store, prompt,
                 messages, llm_response, response, stdout>>

RunRetrieveFails ==
  /\ pc = "graph"
  /\ node = "retrieve"
  /\ Abort("embed_query")
  /\ executed' = Append(executed, node)
  /\ UNCHANGED <<web_docs, file_docs, all_docs, all_splits, vector_store, prompt, node,
                 state, query_vector, retrieved_docs, messages, llm_response, response,
                 stdout>>

\* A generate node that answers nothing, without asking the model, when the
\* context is empty.
RunGenerateSkipsEmptyContext ==
  /\ pc = "graph"
  /\ node = "generate"
  /\ IF state["context"] = <<>>
     THEN /\ state' = ApplyUpdate(state, generate(state, ""))
          /\ UNCHANGED <<messages, llm_response, calls>>
     ELSE /\ messages' = PromptArgs(state)
          /\ \E answer \in Answers : llm_response' = answer
          /\ state' = ApplyUpdate(state, generate(state, llm_response'))
          /\ calls' = Append(calls, Call("llm.invoke", TRUE))
  /\ executed' = Append(executed, node)
  /\ node' = GraphNext(node)
  /\ UNCHANGED <<pc, web_docs, file_docs, all_docs, all_splits, vector_store, prompt,
                 query_vector, retrieved_docs, response, stdout>>

\* The generate node, lines 61-65.
RunGenerate ==
  /\ pc = "graph"
  /\ node = "generate"
  /\ messages' = PromptArgs(state)
  /\ \E answer \in Answers : llm_response' = answer
  /\ state' = ApplyUpdate(state, generate(state, llm_response'))
  /\ calls' = Append(calls, Call("llm.invoke", TRUE))
  /\ executed' = Append(executed, node)
  /\ node' = GraphNext(node)
  /\ UNCHANGED <<pc, web_docs, file_docs, all_docs, all_splits, vector_store, prompt,
                 query_vector, retrieved_docs, response, stdout>>

RunGenerateFails ==
  /\ pc = "graph"
  /\ node = "generate"
  /\ messages' = PromptArgs(state)
  /\ Abort("llm.invoke")
  /\ executed' = Append(executed, node)
  /\ UNCHANGED <<web_docs, file_docs, all_docs, all_splits, vector_store, prompt, node,
                 state, query_vector, retrieved_docs, llm_response, response, stdout>>

\* Line 71, the graph returning its State.
InvokeReturns ==
  /\ pc = "graph"
  /\ node = END
  /\ response' = state
  /\ pc' = "print_answer"
  /\ UNCHANGED <<web_docs, file_docs, all_docs, all_splits, vector_store, prompt, node,
                 state, query_vector, retrieved_docs, messages, llm_response, stdout,
                 calls, executed>>

\* Line 72.
PrintAnswer ==
  /\ pc = "print_answer"
  /\ stdout' = Append(stdout, <<"answer", response["answer"]>>)
  /\ pc' = "done"
  /\ UNCHANGED <<web_docs, file_docs, all_docs, all_splits, vector_store, prompt, node,
                 state, query_vector, retrieved_docs, messages, llm_response, response,
                 calls, executed>>

Next ==
  \/ LoadWeb \/ LoadWebFails
  \/ LoadFiles \/ LoadFilesFails
  \/ Combine
  \/ Split
  \/ AddDocuments \/ AddDocumentsFails
  \/ PullPrompt \/ PullPromptFails
  \/ Invoke
  \/ RunRetrieve \/ RunRetrieveFails
  \/ RunGenerate \/ RunGenerateFails
  \/ InvokeReturns
  \/ PrintAnswer

Spec == Init /\ [][Next]_vars

----------------------------------------------------------------------------
(* The splitter on its own: every text up to MaxLen, split by line 43.      *)

InitSplit ==
  /\ pc = "split"
  /\ web_docs \in {<<Document(WebSource, t)>> : t \in Texts(Chars, MaxLen)}
  /\ file_docs = <<>>
  /\ all_docs = CombineDocs(web_docs, file_docs)
  /\ all_splits = <<>>
  /\ vector_store = <<>>
  /\ prompt = ""
  /\ node = START
  /\ state = <<>>
  /\ query_vector = <<>>
  /\ retrieved_docs = <<>>
  /\ messages = <<>>
  /\ llm_response = ""
  /\ response = <<>>
  /\ stdout = <<>>
  /\ calls = <<>>
  /\ executed = <<>>

SpecSplit == InitSplit /\ [][Split]_vars

----------------------------------------------------------------------------
(* The search on its own: every store of up to MaxStore entries, searched   *)
(* by line 58.                                                              *)

StoresOfLen(n) ==
  {AddedEntries(<<>>, [i \in 1..n |-> Document(WebSource, <<"a">>)], vectors) :
     vectors \in [1..n -> Vecs]}

InitSearch ==
  /\ pc = "graph"
  /\ web_docs = <<>>
  /\ file_docs = <<>>
  /\ all_docs = <<>>
  /\ all_splits = <<>>
  /\ vector_store \in UNION {StoresOfLen(n) : n \in 0..MaxStore}
  /\ prompt = PromptId
  /\ node = GraphNext(START)
  /\ state = ("question" :> Question)
  /\ query_vector = <<>>
  /\ retrieved_docs = <<>>
  /\ messages = <<>>
  /\ llm_response = ""
  /\ response = <<>>
  /\ stdout = <<>>
  /\ calls = <<>>
  /\ executed = <<>>

SpecSearch == InitSearch /\ [][RunRetrieve]_vars

----------------------------------------------------------------------------
(* The claims.                                                              *)

Ran(n) == \E i \in 1..Len(executed) : executed[i] = n
Made(name) == \E i \in 1..Len(calls) : calls[i].call = name /\ calls[i].ok
Failed(name) == \E i \in 1..Len(calls) : calls[i].call = name /\ ~calls[i].ok
AnswerPrinted == \E i \in 1..Len(stdout) : stdout[i][1] = "answer"

\* C1: in the invocation of the graph, retrieve runs once, then generate
\* runs once, and nothing runs after generate; generate only starts on a
\* State whose context retrieve has set.
C1_RetrieveThenGenerateOnce ==
  /\ executed \in {<<>>, <<"retrieve">>, <<"retrieve", "generate">>}
  /\ (pc = "graph" /\ node = "generate") => "context" \in DOMAIN state
  /\ Ran("generate") => "context" \in DOMAIN state
  /\ pc \in {"print_answer", "done"} => executed = <<"retrieve", "generate">>
  /\ (pc = "graph" /\ node = END) => executed = <<"retrieve", "generate">>

C1_Witness == pc = "done" /\ executed = <<"retrieve", "generate">>

\* Where chunk i of the context starts in the context text (0-based) when
\* the chunks are laid out one after the other, two characters apart.
RECURSIVE ChunkOffset(_, _)
ChunkOffset(context, i) ==
  IF i = 1 THEN 0
  ELSE ChunkOffset(context, i - 1) + Len(context[i - 1].page_content) + 2

\* C2: the context text handed to the prompt template holds the content of
\* the chunks of state.context, in that order, one blank line (two newlines)
\* between consecutive chunks, nothing before the first or after the last;
\* state.context is what the search returned; the question is the
\* invocation's.
C2_ContextTextIsBlankLineJoin ==
  Ran("generate") =>
    LET context == state["context"]
        n == Len(context)
        text == messages.context
    IN /\ context = retrieved_docs
       /\ messages.question = Question
       /\ n = 0 => text = <<>>
       /\ n > 0 => Len(text) = ChunkOffset(context, n) + Len(context[n].page_content)
       /\ \A i \in 1..n :
            SubSeq(text, ChunkOffset(context, i) + 1,
                   ChunkOffset(context, i) + Len(context[i].page_content))
              = context[i].page_content
       /\ \A i \in 2..n :
            /\ text[ChunkOffset(context, i) - 1] = NL
            /\ text[ChunkOffset(context, i)] = NL

C2_Witness ==
  /\ Ran("generate")
  /\ Len(state["context"]) >= 3
  /\ \E i, j \in 1..Len(state["context"]) :
       state["context"][i].page_content # state["context"][j].page_content

\* The vector of the store's entry a returned Document came from.
VectorOf(doc) == (CHOOSE e \in {vector_store[i] : i \in 1..Len(vector_store)} : e.id = doc.id).vector

\* C3: the search of retrieve returns k chunks of a store of at least k,
\* every chunk of a smaller store, each stored chunk at most once, ordered by
\* non-increasing similarity (non-decreasing distance) to the query
\* embedding, and no chunk left out is strictly closer than one returned.
C3_SearchReturnsNearestK ==
  Made("embed_query") =>
    LET n == Len(retrieved_docs)
        ids == {retrieved_docs[i].id : i \in 1..n}
    IN /\ n = (IF Len(vector_store) >= DefaultK THEN DefaultK ELSE Len(vector_store))
       /\ Cardinality(ids) = n
       /\ \A i \in 1..n :
            \E j \in 1..Len(vector_store) :
              /\ vector_store[j].id = retrieved_docs[i].id
              /\ vector_store[j].doc.page_content = retrieved_docs[i].page_content
       /\ \A i, j \in 1..n :
            i < j => ~SimLess(VectorOf(retrieved_docs[i]), VectorOf(retrieved_docs[j]),
                              query_vector)
       /\ \A e \in 1..Len(vector_store) :
            vector_store[e].id \notin ids =>
              \A i \in 1..n :
                ~SimLess(VectorOf(retrieved_docs[i]), vector_store[e].vector, query_vector)

C3_Witness ==
  /\ Made("embed_query")
  /\ Len(vector_store) > DefaultK
  /\ Len(retrieved_docs) = DefaultK
  /\ \E i \in 1..Len(vector_store) :
       SimLess(vector_store[i].vector, VectorOf(retrieved_docs[DefaultK]), query_vector)
  /\ SimLess(VectorOf(retrieved_docs[DefaultK]), VectorOf(retrieved_docs[1]), query_vector)

\* C4: the store changes in one step only, the add_documents of line 46,
\* which finds it empty and runs before any node of the graph; no other
\* step, retrieve and generate included, changes it.
C4_StoreWrittenOnceAtStartup ==
  [][vector_store' # vector_store =>
       /\ pc = "add_documents"
       /\ vector_store = <<>>
       /\ executed = <<>>
       /\ [i \in 1..Len(vector_store') |-> vector_store'[i].doc] = all_splits]_vars

C4_Witness ==
  /\ pc = "done"
  /\ Len(vector_store) >= 2
  /\ [i \in 1..Len(vector_store) |-> vector_store[i].doc] = all_splits

\* The artifacts the statements after a failed call would have produced.
NothingAfter(name) ==
  /\ name \in {"web_loader.load"} => web_docs = <<>> /\ stdout = <<>>
  /\ name \in {"web_loader.load", "file_loader.load"} => file_docs = <<>> /\ all_docs = <<>>
  /\ name \in {"web_loader.load", "file_loader.load", "embed_documents"} =>
       vector_store = <<>>
  /\ name \in {"web_loader.load", "file_loader.load", "embed_documents", "hub.pull"} =>
       prompt = "" /\ state = <<>> /\ executed = <<>>
  /\ name # "llm.invoke" => ~Ran("generate") /\ "context" \notin DOMAIN state
  /\ "answer" \notin DOMAIN state
  /\ llm_response = ""
  /\ response = <<>>
  /\ ~AnswerPrinted

\* C5: a failed external call is the last call the run makes: it is made
\* once, no call is made twice, the run is aborted, nothing the following
\* statements produce exists (no index built from what was loaded, no
\* answer), and the run aborts for no other reason.
C5_FailureAbortsRun ==
  /\ \A i \in 1..Len(calls) : ~calls[i].ok => i = Len(calls)
  /\ \A i, j \in 1..Len(calls) : i # j => calls[i].call # calls[j].call
  /\ \A i \in 1..Len(calls) : ~calls[i].ok => pc = "aborted" /\ NothingAfter(calls[i].call)
  /\ pc = "aborted" => calls # <<>> /\ ~calls[Len(calls)].ok

C5_Witness ==
  /\ pc = "aborted"
  /\ Failed("embed_documents")
  /\ Len(all_splits) >= 2
  /\ vector_store = <<>>

\* C6: with nothing indexed the run goes on: the search returns the empty
\* sequence, the context text of the prompt is empty, the generative call
\* is made with it and its answer is set and printed; the run never aborts
\* but for a failed external call.
C6_EmptyCorpusStillGenerates ==
  /\ pc = "aborted" => calls # <<>> /\ ~calls[Len(calls)].ok
  /\ (vector_store = <<>> /\ Made("embed_query")) =>
       retrieved_docs = <<>> /\ state["context"] = <<>>
  /\ (vector_store = <<>> /\ Ran("generate")) =>
       /\ Made("llm.invoke") \/ Failed("llm.invoke")
       /\ messages.context = <<>>
       /\ messages.question = Question
  /\ (vector_store = <<>> /\ Ran("generate") /\ pc # "aborted") =>
       /\ Made("llm.invoke")
       /\ state["answer"] = llm_response
  /\ (vector_store = <<>> /\ pc = "done") =>
       stdout[Len(stdout)] = <<"answer", llm_response>>

C6_Witness ==
  /\ pc = "done"
  /\ all_splits = <<>>
  /\ vector_store = <<>>
  /\ Made("llm.invoke")
  /\ messages.context = <<>>

\* The chunk length and the start offsets of the chunks of a split document.
ChunkLengthsBounded ==
  \A i \in 1..Len(all_splits) :
    /\ Len(all_splits[i].page_content) >= 1
    /\ Len(all_splits[i].page_content) <= chunk_size

SameDocument(i, j) == all_splits[i].source = all_splits[j].source

IsWeb(doc) == doc.source = WebSource

\* The place in all_docs of the document a chunk was cut from.
DocIndex(chunk) == CHOOSE i \in 1..Len(all_docs) : all_docs[i].source = chunk.source

\* C8: all_docs lists the web documents before the file documents, and the
\* chunks are split and inserted in the order of their documents: a chunk
\* of a later document never precedes a chunk of an earlier one, so each
\* chunk of the web page precedes each chunk of a local file.
C8_ChunksInDocumentOrder ==
  /\ \A i, j \in 1..Len(all_docs) : (i < j /\ IsWeb(all_docs[j])) => IsWeb(all_docs[i])
  /\ pc \notin {"load_web", "load_files", "combine", "aborted"} =>
       /\ Len(all_docs) = Len(web_docs) + Len(file_docs)
       /\ \A i \in 1..Len(web_docs) : all_docs[i] = web_docs[i]
       /\ \A i \in 1..Len(file_docs) : all_docs[Len(web_docs) + i] = file_docs[i]
  /\ \A i, j \in 1..Len(all_splits) :
       i < j => DocIndex(all_splits[i]) <= DocIndex(all_splits[j])
  /\ \A i, j \in 1..Len(vector_store) :
       i < j =>
         /\ DocIndex(vector_store[i].doc) <= DocIndex(vector_store[j].doc)
         /\ IsWeb(vector_store[j].doc) => IsWeb(vector_store[i].doc)
  /\ vector_store # <<>> =>
       [i \in 1..Len(vector_store) |-> vector_store[i].doc] = all_splits

C8_Witness ==
  /\ Len(file_docs) = 2
  /\ \E i, j, k, l \in 1..Len(vector_store) :
       /\ i < j /\ j < k /\ k < l
       /\ IsWeb(vector_store[i].doc) /\ IsWeb(vector_store[j].doc)
       /\ vector_store[k].doc.source = FileSource(1)
       /\ vector_store[l].doc.source = FileSource(2)

\* C10: retrieve adds context to the State and leaves question as it was;
\* generate adds answer and leaves question and context as they were; the
\* State the invocation returns holds the question supplied, the context the
\* search returned and the answer the generative call returned.
C10_EachStageWritesItsField ==
  /\ (pc = "graph" /\ executed = <<>>) => state = ("question" :> Question)
  /\ (pc = "graph" /\ executed = <<"retrieve">>) =>
       /\ DOMAIN state = {"question", "context"}
       /\ state["question"] = Question
       /\ state["context"] = retrieved_docs
  /\ (pc # "aborted" /\ Ran("generate")) =>
       /\ DOMAIN state = {"question", "context", "answer"}
       /\ state["question"] = Question
       /\ state["context"] = retrieved_docs
       /\ state["answer"] = llm_response
  /\ pc \in {"print_answer", "done"} =>
       /\ DOMAIN response = {"question", "context", "answer"}
       /\ response["question"] = Question
       /\ response["context"] = retrieved_docs
       /\ response["answer"] = llm_response

C10_Witness ==
  /\ pc = "done"
  /\ Len(response["context"]) >= 2
  /\ response["answer"] = "an answer"

====
